---- MODULE Spec2Model ----
(***************************************************************************)
(* Model of the local cradle (src/src/local/mod.rs): a timer thread that   *)
(* ticks once per second, a list of babies (deadline triggers) behind a    *)
(* mutex, and a caller that sends Start / Reset / Cry / Stop over an mpsc  *)
(* channel, pushes babies and joins the thread.                            *)
(***************************************************************************)
EXTENDS Integers, Sequences, FiniteSets

\* ---- bounds of the model ------------------------------------------------
MaxBabies == 2      \* babies pushed by the caller
MaxTime == 1        \* largest Baby.time drawn
MaxQueue == 2       \* signals waiting in the channel at any time
MaxElapsed == 2     \* tick passes are explored while elapsed < MaxElapsed

VARIABLES
    babies,     \* Cradle.babies: Vec<Baby>, in push order
    lock,       \* holder of the Mutex around babies: "none" | "timer" | "caller"
    chan,       \* the mpsc channel: signals sent and not yet received
    pc,         \* position of the timer thread
    elapsed,    \* the timer thread's local `elapsed`
    idx,        \* position of the running `for baby in ...` loop (1-based)
    result,     \* value the thread closure returned (what jh.join() yields)
    callerPc,   \* position of the owning thread
    joinRet,    \* what Cradle::join returned to the caller
    \* ---- observations of the run (history) ----
    cried,      \* some baby's cry closure has run
    passLog,    \* indices of the babies whose closure ran in the pass under way
                \* (kept when the pass ends the thread)
    started,    \* the first signal the thread received was Start
    stopped,    \* the thread has dequeued a Stop
    resetDone,  \* the thread has processed a Reset
    dupStart,   \* the loop iteration just finished took a further Start off
                \* the channel (FALSE again at the next poll)
    ticks,      \* sleeps completed since Start or since the last Reset processed
    startSent,  \* start() has put Start on the channel
    stopSent,   \* stop() has put Stop on the channel
    passesAfterStop, \* passes under way or begun between the first send of
                \* Stop and its dequeue
    lastErr     \* index of the baby whose closure returned Err (0 if none did)

vars == <<babies, lock, chan, pc, elapsed, idx, result, callerPc, joinRet,
          cried, passLog, started, stopped, resetDone, ticks, startSent,
          stopSent, passesAfterStop, lastErr, dupStart>>

timerVars == <<pc, elapsed, idx, result>>
callerVars == <<callerPc, joinRet>>
sendObs == <<startSent, stopSent>>
runObs == <<cried, passLog, started, stopped, resetDone, ticks, lastErr>>

\* ---- data ---------------------------------------------------------------
Signal == {"Reset", "Cry", "Start", "Stop"}

\* A baby: its threshold, and whether its closure can return Err.
BabyKinds == [time : 0..MaxTime, fallible : BOOLEAN]

\* Results of the closure of a baby: TRUE is Ok(()), FALSE is Err(..).
CryOutcomes(b) == IF b.fallible THEN {TRUE, FALSE} ELSE {TRUE}

Running == <<"Running", 0>>
OkResult == <<"Ok", 0>>
ErrResult(k) == <<"Err", k>>

\* ---- the pieces of the thread closure -----------------------------------
\* Each piece follows the faulty variant of it that the properties are tested
\* against (a property that survives the variant does not depend on the piece).
\* Sender::send: the channel is a FIFO queue.
SendPrepend(ch, sig) == <<sig>> \o ch
Send(ch, sig) == Append(ch, sig)

\* rx.try_recv() is Ok(signal) when a signal is queued, else Err(Empty)
HasSignalLate(ch) == Len(ch) > 1
HasSignal(ch) == ch # <<>>

\* `Signal::Start == rx.recv().unwrap()`
IsStartAny(sig) == TRUE
IsStart(sig) == sig = "Start"

\* the inner `match signal` of the loop
DispatchStartResets(sig) ==
    CASE sig = "Reset" -> "reset"
      [] sig = "Start" -> "reset"
      [] sig = "Cry" -> "cry"
      [] sig = "Stop" -> "break"
      [] OTHER -> "ignore"
DispatchNoBreak(sig) ==
    CASE sig = "Reset" -> "reset"
      [] sig = "Cry" -> "cry"
      [] OTHER -> "ignore"
Dispatch(sig) ==
    CASE sig = "Reset" -> "reset"
      [] sig = "Cry" -> "cry"
      [] sig = "Stop" -> "break"
      [] OTHER -> "ignore"

\* `Signal::Reset => elapsed = 0`
ResetElapsedKeep(e) == e
ResetElapsed(e) == 0

\* `elapsed += 1`
NextElapsedTwo(e) == e + 2
NextElapsed(e) == e + 1

\* `if elapsed >= baby.time`
DueAlways(e, b) == TRUE
DueStrict(e, b) == e > b.time
Due(e, b) == e >= b.time

\* the Cry arm calls baby.cry() for every baby, with no test on elapsed
CryDueOnly(e, b) == e >= b.time
CryDue(e, b) == TRUE

\* `baby.cry()?`: Ok lets the loop go on, Err(e) is returned from the closure
PropagateSwallow(ok, k) == Running
Propagate(ok, k) == IF ok THEN Running ELSE ErrResult(k)

\* Mutex::lock returns once no other thread holds the lock
LockFreeAlways(l) == TRUE
LockFree(l) == l = "none"

\* Vec::push appends at the end of the list
PushFront(bs, b) == <<b>> \o bs
Push(bs, b) == Append(bs, b)

\* Sender::send fails once the receiver has been dropped, which the thread
\* does when its closure returns
DisconnectedNever(p) == FALSE
Disconnected(p) == p = "done"

InPass == pc \in {"cry_lock", "cry_iter", "tick_lock", "tick_iter"}
StopPending == stopSent /\ ~stopped /\ pc # "done"

\* ---- initial state: Cradle::new has returned ------------------------------
Init ==
    /\ babies = <<>>
    /\ lock = "none"
    /\ chan = <<>>
    /\ pc = "recv"
    /\ elapsed = 0
    /\ idx = 0
    /\ result = Running
    /\ callerPc = "idle"
    /\ joinRet = Running
    /\ cried = FALSE
    /\ passLog = <<>>
    /\ started = FALSE
    /\ stopped = FALSE
    /\ resetDone = FALSE
    /\ dupStart = FALSE
    /\ ticks = 0
    /\ startSent = FALSE
    /\ stopSent = FALSE
    /\ passesAfterStop = 0
    /\ lastErr = 0

\* ---- the timer thread ---------------------------------------------------
\* rx.recv() of the first signal
RecvFirst ==
    /\ pc = "recv"
    /\ chan # <<>>
    /\ chan' = Tail(chan)
    /\ started' = (Head(chan) = "Start")
    /\ stopped' = (Head(chan) = "Stop")
    /\ IF IsStart(Head(chan))
         THEN /\ pc' = "poll"
              /\ elapsed' = 0
              /\ result' = result
         ELSE /\ pc' = "done"
              /\ result' = OkResult
              /\ elapsed' = elapsed
    /\ UNCHANGED <<babies, lock, idx, callerVars, sendObs, cried, passLog,
                   resetDone, ticks, passesAfterStop, lastErr,
                   dupStart>>

\* rx.try_recv() returned Ok(Reset)
PollReset ==
    /\ pc = "poll"
    /\ HasSignal(chan)
    /\ Dispatch(Head(chan)) = "reset"
    /\ chan' = Tail(chan)
    /\ elapsed' = ResetElapsed(elapsed)
    /\ ticks' = 0
    /\ resetDone' = TRUE
    /\ dupStart' = FALSE
    /\ UNCHANGED <<babies, lock, pc, idx, result, callerVars, sendObs, cried,
                   passLog, started, stopped, passesAfterStop, lastErr>>

\* rx.try_recv() returned Ok(Cry): the thread goes on to lock the babies
PollCry ==
    /\ pc = "poll"
    /\ HasSignal(chan)
    /\ Dispatch(Head(chan)) = "cry"
    /\ chan' = Tail(chan)
    /\ pc' = "cry_lock"
    /\ passesAfterStop' = IF StopPending THEN passesAfterStop + 1
                          ELSE passesAfterStop
    /\ dupStart' = FALSE
    /\ UNCHANGED <<babies, lock, elapsed, idx, result, callerVars, sendObs,
                   runObs>>

\* rx.try_recv() returned Ok(Stop): break, then Ok(())
PollStop ==
    /\ pc = "poll"
    /\ HasSignal(chan)
    /\ Dispatch(Head(chan)) = "break"
    /\ chan' = Tail(chan)
    /\ stopped' = (Head(chan) = "Stop")
    /\ pc' = "done"
    /\ result' = OkResult
    /\ dupStart' = FALSE
    /\ UNCHANGED <<babies, lock, elapsed, idx, callerVars, sendObs, cried,
                   passLog, started, resetDone, ticks, passesAfterStop, lastErr>>

\* rx.try_recv() returned Ok of a signal the loop ignores (`_ => {}`)
PollIgnore ==
    /\ pc = "poll"
    /\ HasSignal(chan)
    /\ Dispatch(Head(chan)) = "ignore"
    /\ chan' = Tail(chan)
    /\ stopped' = (stopped \/ Head(chan) = "Stop")
    /\ dupStart' = (Head(chan) = "Start")
    /\ UNCHANGED <<babies, lock, timerVars, callerVars, sendObs, cried,
                   passLog, started, resetDone, ticks, passesAfterStop, lastErr>>

\* rx.try_recv() returned Err(Empty): the tick arm
PollEmpty ==
    /\ pc = "poll"
    /\ ~HasSignal(chan)
    /\ elapsed < MaxElapsed
    /\ pc' = "tick_lock"
    /\ passesAfterStop' = IF StopPending THEN passesAfterStop + 1
                          ELSE passesAfterStop
    /\ dupStart' = FALSE
    /\ UNCHANGED <<babies, lock, chan, elapsed, idx, result, callerVars,
                   sendObs, runObs>>

\* babies_c.lock().unwrap() in either arm
LockBabies ==
    /\ pc \in {"cry_lock", "tick_lock"}
    /\ LockFree(lock)
    /\ lock' = "timer"
    /\ pc' = IF pc = "cry_lock" THEN "cry_iter" ELSE "tick_iter"
    /\ idx' = 1
    /\ passLog' = <<>>
    /\ UNCHANGED <<babies, chan, elapsed, result, callerVars, sendObs, cried,
                   started, stopped, resetDone, ticks, passesAfterStop, lastErr,
                   dupStart>>

\* One iteration of `for baby in babies.borrow().iter()`: the baby at idx is
\* skipped, or its closure runs and returns ok or an error.
Visit(due) ==
    /\ idx <= Len(babies)
    /\ IF ~due
         THEN /\ idx' = idx + 1
              /\ UNCHANGED <<pc, result, lock, cried, passLog, lastErr>>
         ELSE \E ok \in CryOutcomes(babies[idx]) :
              /\ cried' = TRUE
              /\ passLog' = Append(passLog, idx)
              /\ lastErr' = IF ok THEN lastErr ELSE idx
              /\ IF Propagate(ok, idx) = Running
                   THEN /\ idx' = idx + 1
                        /\ UNCHANGED <<pc, result, lock>>
                   ELSE /\ pc' = "done"
                        /\ result' = Propagate(ok, idx)
                        /\ lock' = "none"
                        /\ idx' = idx
    /\ UNCHANGED <<babies, chan, elapsed, callerVars, sendObs, started,
                   stopped, resetDone, ticks, passesAfterStop,
                   dupStart>>

\* the Cry arm: every baby cries
CryStep ==
    /\ pc = "cry_iter"
    /\ Visit(CryDue(elapsed, babies[idx]))

\* end of the Cry arm: the guard is dropped and the loop polls again
CryEnd ==
    /\ pc = "cry_iter"
    /\ idx > Len(babies)
    /\ lock' = "none"
    /\ pc' = "poll"
    /\ idx' = 0
    /\ passLog' = <<>>
    /\ UNCHANGED <<babies, chan, elapsed, result, callerVars, sendObs, cried,
                   started, stopped, resetDone, ticks, lastErr, passesAfterStop,
                   dupStart>>

\* the tick arm: the babies whose time has come cry
TickStep ==
    /\ pc = "tick_iter"
    /\ Visit(Due(elapsed, babies[idx]))

\* the for loop of the tick arm is over: thread::sleep(1s), guard still alive
TickSleep ==
    /\ pc = "tick_iter"
    /\ idx > Len(babies)
    /\ pc' = "sleep"
    /\ idx' = 0
    /\ UNCHANGED <<babies, lock, chan, elapsed, result, callerVars, sendObs,
                   runObs, passesAfterStop,
                   dupStart>>

\* the sleep returns: elapsed += 1, then the guard is dropped at the end of
\* the arm
Wake ==
    /\ pc = "sleep"
    /\ elapsed' = NextElapsed(elapsed)
    /\ ticks' = ticks + 1
    /\ lock' = "none"
    /\ pc' = "poll"
    /\ passLog' = <<>>
    /\ UNCHANGED <<babies, chan, idx, result, callerVars, sendObs, cried,
                   started, stopped, resetDone, passesAfterStop, lastErr,
                   dupStart>>

TimerNext ==
    \/ RecvFirst
    \/ PollReset
    \/ PollCry
    \/ PollStop
    \/ PollIgnore
    \/ PollEmpty
    \/ LockBabies
    \/ CryStep
    \/ CryEnd
    \/ TickStep
    \/ TickSleep
    \/ Wake

\* ---- the owning thread --------------------------------------------------
\* self.tx.send(sig).unwrap(): the send fails, and unwrap panics, once the
\* thread has returned and dropped rx
SendSignal(sig) ==
    /\ callerPc = "idle"
    /\ Len(chan) < MaxQueue
    /\ IF Disconnected(pc)
         THEN /\ callerPc' = "panicked"
              /\ UNCHANGED <<chan, startSent, stopSent, passesAfterStop>>
         ELSE /\ chan' = Send(chan, sig)
              /\ callerPc' = callerPc
              /\ startSent' = (startSent \/ sig = "Start")
              /\ stopSent' = (stopSent \/ sig = "Stop")
              /\ passesAfterStop' = IF sig = "Stop" /\ ~stopSent /\ InPass
                                    THEN 1 ELSE passesAfterStop
    /\ UNCHANGED <<babies, lock, timerVars, joinRet, runObs,
                   dupStart>>

start == SendSignal("Start")
reset == SendSignal("Reset")
stop == SendSignal("Stop")
cry == SendSignal("Cry")

\* put_baby is called (its Baby is drawn where it is first read, at the push)
PutBabyCall ==
    /\ callerPc = "idle"
    /\ Len(babies) < MaxBabies
    /\ callerPc' = "put_wait"
    /\ UNCHANGED <<babies, lock, chan, timerVars, joinRet, sendObs, runObs,
                   passesAfterStop,
                   dupStart>>

\* self.babies.lock().unwrap()
PutBabyLock ==
    /\ callerPc = "put_wait"
    /\ LockFree(lock)
    /\ lock' = "caller"
    /\ callerPc' = "put_locked"
    /\ UNCHANGED <<babies, chan, timerVars, joinRet, sendObs, runObs,
                   passesAfterStop,
                   dupStart>>

\* mut_babies.borrow_mut().push(baby); the guard is dropped on return
PutBabyPush ==
    /\ callerPc = "put_locked"
    /\ \E baby \in BabyKinds : babies' = Push(babies, baby)
    /\ lock' = "none"
    /\ callerPc' = "idle"
    /\ UNCHANGED <<chan, timerVars, joinRet, sendObs, runObs, passesAfterStop,
                   dupStart>>

\* join(self) is called: the caller blocks in jh.join()
JoinCall ==
    /\ callerPc = "idle"
    /\ callerPc' = "joining"
    /\ UNCHANGED <<babies, lock, chan, timerVars, joinRet, sendObs,
                   runObs, passesAfterStop,
                   dupStart>>

\* jh.join() returns the value of the closure once the thread has ended
JoinReturn ==
    /\ callerPc = "joining"
    /\ pc = "done"
    /\ joinRet' = result
    /\ callerPc' = "joined"
    /\ UNCHANGED <<babies, lock, chan, timerVars, sendObs, runObs,
                   passesAfterStop,
                   dupStart>>

CallerNext ==
    \/ start
    \/ reset
    \/ stop
    \/ cry
    \/ PutBabyCall
    \/ PutBabyLock
    \/ PutBabyPush
    \/ JoinCall
    \/ JoinReturn

Next == TimerNext \/ CallerNext

Spec == Init /\ [][Next]_vars

\* The timer thread keeps running, a put_baby in progress finishes, and a
\* blocked join returns.
FairSpec ==
    /\ Spec
    /\ WF_vars(TimerNext)
    /\ WF_vars(PutBabyLock \/ PutBabyPush)
    /\ WF_vars(JoinReturn)

\* ---- the loop without an end -------------------------------------------
\* Spec stops ticking at elapsed = MaxElapsed.  The loop of the code never
\* stops by itself, so the properties about what happens in the long run are
\* checked on LoopSpec, where the tick arm is always open and elapsed is kept
\* at MaxElapsed once it gets there.  The only read of elapsed is the test
\* elapsed >= baby.time, and baby.time <= MaxTime < MaxElapsed, so every
\* value from MaxElapsed on behaves alike.
Saturate(e) == IF e > MaxElapsed THEN MaxElapsed ELSE e

\* rx.try_recv() returned Err(Empty): the tick arm, at any elapsed
PollEmptyLoop ==
    /\ pc = "poll"
    /\ ~HasSignal(chan)
    /\ pc' = "tick_lock"
    /\ passesAfterStop' = IF StopPending THEN passesAfterStop + 1
                          ELSE passesAfterStop
    /\ dupStart' = FALSE
    /\ UNCHANGED <<babies, lock, chan, elapsed, idx, result, callerVars,
                   sendObs, runObs>>

\* the sleep returns: elapsed += 1, then the guard is dropped at the end of
\* the arm
WakeLoop ==
    /\ pc = "sleep"
    /\ elapsed' = Saturate(NextElapsed(elapsed))
    /\ ticks' = Saturate(ticks + 1)
    /\ lock' = "none"
    /\ pc' = "poll"
    /\ passLog' = <<>>
    /\ UNCHANGED <<babies, chan, idx, result, callerVars, sendObs, cried,
                   started, stopped, resetDone, passesAfterStop, lastErr,
                   dupStart>>

LoopTimerNext ==
    \/ RecvFirst
    \/ PollReset
    \/ PollCry
    \/ PollStop
    \/ PollIgnore
    \/ PollEmptyLoop
    \/ LockBabies
    \/ CryStep
    \/ CryEnd
    \/ TickStep
    \/ TickSleep
    \/ WakeLoop

LoopNext == LoopTimerNext \/ CallerNext

\* The timer thread keeps running; a caller waiting for the lock takes it if
\* the lock stays free, a caller holding it pushes and returns, and a blocked
\* join returns once the thread has ended.  std::sync::Mutex hands the lock to
\* no one in particular, so nothing stronger is assumed of PutBabyLock.
LoopSpec ==
    /\ Init
    /\ [][LoopNext]_vars
    /\ WF_vars(LoopTimerNext)
    /\ WF_vars(PutBabyLock \/ PutBabyPush)
    /\ WF_vars(JoinReturn)

\* ---- vocabulary of the properties ---------------------------------------
Iota(n) == [i \in 1..n |-> i]

IsDue(i) == elapsed >= babies[i].time

\* the babies among the first n whose time has come, in list order
DueUpTo(n) == SelectSeq(Iota(n), IsDue)

\* this step runs the closure of a baby
CryHappens == Len(passLog') = Len(passLog) + 1

\* this step is the loop taking a Reset off the channel
ResetStep ==
    /\ pc = "poll"
    /\ chan # <<>>
    /\ Head(chan) = "Reset"
    /\ chan' = Tail(chan)

\* this step is the loop deciding to run a pass
PassStarts == pc = "poll" /\ pc' \in {"cry_lock", "tick_lock"}

\* ---- C1 -----------------------------------------------------------------
\* C1: as long as the thread has not received Start as its first signal, no
\* baby's closure has run, whatever babies are in the cradle.
C1_NoCryBeforeStart == ~started => ~cried

C1_Witness ==
    /\ ~started
    /\ pc = "done"
    /\ \E i \in 1..Len(babies) : babies[i].time = 0

\* ---- C2 -----------------------------------------------------------------
\* C2 (as claimed): once stop() has put Stop on the channel, no step runs a
\* baby's closure.
C2_NoCryOnceStopSent == [][stopSent => ~CryHappens]_vars

\* C2 (amended): once the thread has dequeued Stop, no step runs a baby's
\* closure.
C2_NoCryOnceStopDequeued == [][stopped => ~CryHappens]_vars

C2_Witness == started /\ stopped /\ cried /\ pc = "done"

\* ---- C3 -----------------------------------------------------------------
\* C3: when Start and Stop have been sent the thread eventually ends, with
\* Ok(()) unless a closure returned an error, and a join then returns that
\* value.
C3_StopEndsThread ==
    /\ (startSent /\ stopSent) ~> (pc = "done" /\ (lastErr = 0 => result = OkResult))
    /\ (startSent /\ stopSent /\ callerPc = "joining") ~> (callerPc = "joined")
    /\ [](callerPc = "joined" /\ lastErr = 0 => joinRet = OkResult)

C3_Witness ==
    /\ started
    /\ stopped
    /\ cried
    /\ callerPc = "joined"
    /\ joinRet = OkResult

\* ---- C4 -----------------------------------------------------------------
\* C4 (as claimed): when the for loop of a tick pass is left, the closures
\* that ran in the pass are those of all the babies with elapsed >= time.
C4_EveryDueBabyCries ==
    [][(pc = "tick_iter" /\ pc' # "tick_iter")
         => passLog' = DueUpTo(Len(babies))]_vars

\* C4 (amended): in a tick pass the closures that ran are exactly those of
\* the babies with elapsed >= time among the babies the pass has visited;
\* a pass that goes to sleep has visited them all.
C4_VisitedDueBabiesCry ==
    /\ pc = "tick_iter" => passLog = DueUpTo(idx - 1)
    /\ pc = "sleep" => passLog = DueUpTo(Len(babies))

C4_Witness ==
    /\ pc = "sleep"
    /\ elapsed = 1
    /\ Len(babies) = 2
    /\ babies[1].time = 0
    /\ passLog = <<1, 2>>

\* ---- C5 -----------------------------------------------------------------
\* C5 (as claimed): when the for loop of a Cry pass is left, the closure of
\* every baby has run exactly once, in order.
C5_EveryBabyCries ==
    [][(pc = "cry_iter" /\ pc' # "cry_iter")
         => (IF pc' = "done" THEN passLog' ELSE passLog) = Iota(Len(babies))]_vars

\* C5 (amended): in a Cry pass the closure of every baby visited has run
\* exactly once, whatever elapsed is, and the pass ends with every baby
\* visited unless a closure returned an error; no step of the pass changes
\* elapsed or sleeps.
C5_CryPass ==
    /\ [](pc = "cry_iter" => passLog = Iota(idx - 1))
    /\ [][(pc \in {"cry_lock", "cry_iter"})
            => (/\ elapsed' = elapsed
                /\ pc' \in {"cry_lock", "cry_iter", "poll", "done"}
                /\ (pc' = "poll" => idx = Len(babies) + 1)
                /\ (pc' = "done" => lastErr' = idx))]_vars

C5_Witness ==
    /\ pc = "cry_iter"
    /\ Len(babies) = 2
    /\ passLog = <<1, 2>>
    /\ elapsed < babies[2].time

\* ---- C6 -----------------------------------------------------------------
\* C6: taking a Reset off the channel sets elapsed to 0, runs no closure and
\* does not sleep; a tick pass runs the closure of a baby only when at least
\* baby.time sleeps have completed since the last Reset (or since Start).
C6_ResetSuppresses ==
    /\ [][ResetStep => (/\ elapsed' = 0
                        /\ pc' = "poll"
                        /\ lock' = lock
                        /\ ~CryHappens)]_vars
    /\ [](pc \in {"tick_iter", "sleep"}
            => \A k \in 1..Len(passLog) : babies[passLog[k]].time <= ticks)

C6_Witness ==
    /\ resetDone
    /\ cried
    /\ pc = "sleep"
    /\ ticks = 0
    /\ babies # <<>>
    /\ babies[1].time = 1
    /\ passLog = <<>>

\* ---- C7 -----------------------------------------------------------------
\* C7: once a closure has returned an error the thread has ended with that
\* error as its result, the failing baby is the last one of its pass whose
\* closure ran, nothing of the thread changes afterwards, and join returns
\* the thread's result.
C7_FailFast ==
    /\ [](lastErr # 0 => (/\ pc = "done"
                          /\ result = ErrResult(lastErr)
                          /\ lock # "timer"
                          /\ passLog # <<>>
                          /\ passLog[Len(passLog)] = lastErr))
    /\ [][lastErr # 0 => UNCHANGED <<pc, elapsed, ticks, passLog, result>>]_vars
    /\ [](callerPc = "joined" => joinRet = result)

C7_Witness ==
    /\ callerPc = "joined"
    /\ joinRet = ErrResult(1)
    /\ Len(babies) = 2
    /\ passLog = <<1>>

\* ---- C8 -----------------------------------------------------------------
\* C8: elapsed is 0 when the loop is entered, and a step leaves it alone,
\* adds exactly 1 when the sleep of a tick pass returns, or sets it to 0 by
\* taking a Reset off the channel.
C8_ElapsedSteps ==
    /\ [][pc = "recv" /\ pc' = "poll" => elapsed' = 0]_vars
    /\ [][(\/ elapsed' = elapsed
           \/ (pc = "sleep" /\ elapsed' = elapsed + 1)
           \/ (ResetStep /\ elapsed' = 0))]_vars

C8_Witness == resetDone /\ elapsed = 1 /\ pc = "poll"

\* ---- C9 -----------------------------------------------------------------
\* C9 (as claimed): at most one pass is under way or begun between the send
\* of Stop and its dequeue.
C9_AtMostOnePass == passesAfterStop <= 1

\* C9 (amended): while Stop waits in the channel no tick pass begins; a pass
\* that begins is the Cry pass of a Cry taken from the head of the channel,
\* hence one queued ahead of Stop.
C9_OnlyQueuedCryPasses ==
    [][StopPending /\ PassStarts
         => (/\ pc' = "cry_lock"
             /\ Head(chan) = "Cry"
             /\ chan' = Tail(chan))]_vars

C9_Witness == stopped /\ passesAfterStop = 2

\* ---- C10 ----------------------------------------------------------------
\* C10 (as claimed): while the thread sleeps it does not hold the lock of
\* the babies.
C10_NoLockWhileSleeping == pc = "sleep" => lock # "timer"
\* ---- C11 ----------------------------------------------------------------
\* C11: the lock has one holder at a time: the caller holds it exactly while
\* it is between locking and pushing, the thread exactly from taking the lock
\* of a pass to the end of the arm; and no step changes the list while a pass
\* holds it, so a pass visits the list it found when it took the lock.
C11_PassAndPushExclude ==
    /\ [](/\ (callerPc = "put_locked") = (lock = "caller")
          /\ (pc \in {"cry_iter", "tick_iter", "sleep"}) = (lock = "timer"))
    /\ [][(pc \in {"cry_iter", "tick_iter", "sleep"}) => babies' = babies]_vars
    /\ [][babies' # babies => (callerPc = "put_locked" /\ lock = "caller")]_vars

C11_Witness ==
    /\ callerPc = "put_wait"
    /\ pc = "tick_iter"
    /\ idx = 2
    /\ passLog = <<1>>

\* ---- C12 ----------------------------------------------------------------
\* this step is the thread receiving its first signal
FirstRecvStep == pc = "recv" /\ chan # <<>> /\ chan' = Tail(chan)

\* C12: a first signal other than Start ends the thread with Ok(()) and
\* runs no closure; a thread whose first signal was not Start is never in
\* the loop, and an ended thread stays ended whatever is sent afterwards.
C12_OtherFirstSignalEnds ==
    /\ [][(FirstRecvStep /\ Head(chan) # "Start")
            => (pc' = "done" /\ result' = OkResult /\ ~CryHappens)]_vars
    /\ [](~started => (pc \in {"recv", "done"} /\ ~cried /\ lock # "timer"))
    /\ [][(pc = "done") => (pc' = "done" /\ result' = result /\ ~CryHappens)]_vars

C12_Witness ==
    /\ ~started
    /\ pc = "done"
    /\ result = OkResult
    /\ chan = <<"Start">>
    /\ babies # <<>>

\* ---- C13 ----------------------------------------------------------------
\* this step is the loop taking a Start off the channel
DupStartStep ==
    /\ pc = "poll"
    /\ chan # <<>>
    /\ Head(chan) = "Start"
    /\ chan' = Tail(chan)

\* C13: the loop taking a further Start off the channel leaves elapsed, the
\* list, the lock and the position of the thread as they were, runs no
\* closure and goes back to the poll without sleeping.
C13_DuplicateStartIgnored ==
    [][DupStartStep
         => (/\ UNCHANGED <<elapsed, ticks, babies, lock, pc, idx, result>>
             /\ UNCHANGED <<passLog, cried, lastErr>>)]_vars

C13_Witness ==
    /\ dupStart
    /\ started
    /\ pc = "poll"
    /\ elapsed = 1
    /\ babies # <<>>

\* ---- C14 ----------------------------------------------------------------
\* C14: the closures of a pass run in increasing list position, and the
\* list only ever grows at its end: a step that changes it keeps every
\* earlier baby at its position and adds one baby behind them.
C14_RegistrationOrder ==
    /\ [](\A j, k \in 1..Len(passLog) : j < k => passLog[j] < passLog[k])
    /\ [](\A k \in 1..Len(passLog) : passLog[k] \in 1..Len(babies))
    /\ [][babies' # babies
            => (/\ Len(babies') = Len(babies) + 1
                /\ SubSeq(babies', 1, Len(babies)) = babies)]_vars

C14_Witness ==
    /\ pc = "tick_iter"
    /\ passLog = <<1, 2>>
    /\ babies[1] # babies[2]

\* ---- C15 ----------------------------------------------------------------
\* C15 (as claimed): whenever a closure runs, in either kind of pass,
\* elapsed has reached the time of its baby.
C15_OnlyDueBabiesCry == [][CryHappens => elapsed >= babies[idx].time]_vars

\* C15 (amended): a closure that runs in a tick pass is that of a baby whose
\* time elapsed has reached, and a tick pass steps over a baby whose time it
\* has not reached; a closure that runs otherwise runs in a Cry pass.
C15_OnlyTickPassTestsTime ==
    /\ [][CryHappens
            => (\/ pc = "cry_iter"
                \/ (pc = "tick_iter" /\ elapsed >= babies[idx].time))]_vars
    /\ [][(pc = "tick_iter" /\ idx <= Len(babies) /\ idx' # idx
             /\ elapsed < babies[idx].time)
            => (~CryHappens /\ idx' = idx + 1 /\ pc' = "tick_iter")]_vars

C15_Witness ==
    /\ pc = "tick_iter"
    /\ Len(babies) = 1
    /\ idx = 2
    /\ passLog = <<>>
    /\ elapsed < babies[1].time
    /\ cried

\* ---- C16 ----------------------------------------------------------------
\* the coarse state of the scheduler, read off the position of the thread
Phase ==
    CASE pc = "recv" -> "NotStarted"
      [] pc = "done" -> "Stopped"
      [] OTHER -> "Running"

\* this step is the loop taking a Stop off the channel
StopStep ==
    /\ pc = "poll"
    /\ chan # <<>>
    /\ Head(chan) = "Stop"
    /\ chan' = Tail(chan)

\* this step is the loop taking a Cry off the channel
CryDequeueStep ==
    /\ pc = "poll"
    /\ chan # <<>>
    /\ Head(chan) = "Cry"
    /\ chan' = Tail(chan)

StartEnters ==
    /\ Phase = "NotStarted"
    /\ Phase' = "Running"
    /\ FirstRecvStep
    /\ Head(chan) = "Start"

StopLeaves == Phase = "Running" /\ Phase' = "Stopped" /\ StopStep

\* C16 (as claimed): the coarse state changes only from NotStarted to
\* Running by the first Start and from Running to Stopped by a Stop.
C16_OnlyStartAndStopMove == [][Phase' # Phase => (StartEnters \/ StopLeaves)]_vars

\* C16 (amended): besides those two moves, a first signal other than Start
\* takes NotStarted to Stopped and a closure returning an error takes
\* Running to Stopped; the first Start always enters Running, a Stop taken by
\* the loop always leaves it, and taking a Reset or a Cry off the channel
\* leaves the coarse state as it was.
C16_CoarseStateMoves ==
    /\ [][Phase' # Phase
            => (\/ StartEnters
                \/ StopLeaves
                \/ (/\ Phase = "NotStarted"
                    /\ Phase' = "Stopped"
                    /\ FirstRecvStep
                    /\ Head(chan) # "Start")
                \/ (/\ Phase = "Running"
                    /\ Phase' = "Stopped"
                    /\ CryHappens
                    /\ lastErr = 0
                    /\ lastErr' # 0))]_vars
    /\ [][(FirstRecvStep /\ Head(chan) = "Start") => Phase' = "Running"]_vars
    /\ [][StopStep => Phase' = "Stopped"]_vars
    /\ [][(ResetStep \/ CryDequeueStep) => Phase' = Phase]_vars

C16_Witness ==
    /\ pc = "done"
    /\ started
    /\ stopped
    /\ resetDone
    /\ cried
    /\ lastErr = 0

\* ---- C17 ----------------------------------------------------------------
\* the channel is a queue: a step that changes it appends the signal sent or
\* removes the head, which the thread does at its first recv or at a poll
QueueSteps ==
    [][chan' # chan
         => (\/ \E sig \in Signal : chan' = Append(chan, sig)
             \/ (chan # <<>> /\ chan' = Tail(chan) /\ pc \in {"recv", "poll"}
                   /\ pc' # "tick_lock"))]_vars

\* the signal taken off the head is the one the iteration acts on, and a
\* tick pass begins only at a poll that found the channel empty
PollSteps ==
    /\ [][CryDequeueStep => pc' = "cry_lock"]_vars
    /\ [][ResetStep => (elapsed' = 0 /\ pc' = "poll")]_vars
    /\ [][(pc = "poll" /\ pc' = "tick_lock") => (chan = <<>> /\ chan' = chan)]_vars
    /\ [][(pc = "poll" /\ chan # <<>>) => elapsed' \in {elapsed, 0}]_vars

\* C17 (as claimed): in FIFO order, one signal per iteration, a tick pass
\* only after an empty poll, and while a signal waits in the channel no
\* closure runs in a tick pass and elapsed does not grow.
C17_NoTickWhileQueued ==
    /\ QueueSteps
    /\ PollSteps
    /\ [][(chan # <<>> /\ pc # "done")
            => (elapsed' <= elapsed /\ ~(pc = "tick_iter" /\ CryHappens))]_vars

\* C17 (amended): in FIFO order, one signal per iteration, a tick pass only
\* after an empty poll; while a signal waits, no tick pass begins and elapsed
\* grows only by the wake-up of a pass that was under way when it was sent.
C17_NoTickBeginsWhileQueued ==
    /\ QueueSteps
    /\ PollSteps
    /\ [][(chan # <<>> /\ elapsed' > elapsed)
            => (pc = "sleep" /\ elapsed' = elapsed + 1)]_vars

C17_Witness ==
    /\ dupStart
    /\ pc = "poll"
    /\ chan = <<"Reset">>
    /\ elapsed = 1

\* ---- C19 ----------------------------------------------------------------
\* a control operation that returns to its caller with the signal queued
SendReturns(sig) == SendSignal(sig) /\ callerPc' = "idle" /\ chan' = Append(chan, sig)

\* a control operation that ends in the panic of unwrap
SendPanics(sig) == SendSignal(sig) /\ callerPc' = "panicked" /\ chan' = chan

\* C19: once the thread has ended a start, reset, cry or stop panics in the
\* caller and queues nothing; while the thread is alive each of them can be
\* taken whoever holds the lock, queues its signal and returns, and never
\* panics.
C19_SendAfterEndPanics ==
    /\ [][pc = "done" => chan' = chan]_vars
    /\ [][(callerPc # "panicked" /\ callerPc' = "panicked")
            => (pc = "done" /\ callerPc = "idle")]_vars
    /\ [][Len(chan') > Len(chan)
            => (pc # "done" /\ callerPc = "idle" /\ callerPc' = "idle")]_vars
    /\ [](\A sig \in Signal :
            (callerPc = "idle" /\ Len(chan) < MaxQueue)
              => IF pc = "done"
                   THEN ENABLED SendPanics(sig) /\ ~ENABLED SendReturns(sig)
                   ELSE ENABLED SendReturns(sig) /\ ~ENABLED SendPanics(sig))

C19_Witness ==
    /\ callerPc = "panicked"
    /\ started
    /\ stopped
    /\ chan = <<>>

\* ---- C18 ----------------------------------------------------------------
\* baby i has cried in the pass under way (or just over, while sleeping)
CriedInPass(i) == \E k \in 1..Len(passLog) : passLog[k] = i

\* Start was received and neither a Reset, a Stop nor an error has happened
Undisturbed == started /\ ~resetDone /\ ~stopSent /\ lastErr = 0

\* baby i is in the cradle of a started thread
Waiting(i) == started /\ i <= Len(babies)

\* baby i cries, or a Reset, a Stop or an error has come in between
CriesOrDisturbed(i) == CriedInPass(i) \/ resetDone \/ stopSent \/ lastErr # 0

\* C18 (as claimed): after Start, without Reset, Stop or error, every baby in
\* the cradle eventually cries, and once the tick pass with elapsed = time is
\* over a closure has run for the baby, also when it was put in after Start.
C18_EveryBabyEventuallyCries ==
    /\ \A i \in 1..MaxBabies : Waiting(i) ~> CriesOrDisturbed(i)
    /\ [](\A i \in 1..Len(babies) :
            (Undisturbed /\ elapsed > babies[i].time) => cried)

\* C18 (amended): after Start, without Reset, Stop or error, and unless the
\* caller sends Start again and again for ever, every baby in the cradle
\* eventually cries; a baby in the cradle whose time has come cries in every
\* tick pass, so in the one with elapsed = time if it was put in by then and
\* otherwise in the first tick pass after its put_baby returned.
C18_BabyInCradleEventuallyCries ==
    /\ ([]<>dupStart) \/ (\A i \in 1..MaxBabies : Waiting(i) ~> CriesOrDisturbed(i))
    /\ [](pc = "sleep" => \A i \in 1..Len(babies) : IsDue(i) => CriedInPass(i))
    /\ [][lock = "timer" => babies' = babies]_vars

C18_Witness ==
    /\ Undisturbed
    /\ pc = "sleep"
    /\ elapsed = MaxElapsed
    /\ Len(babies) = MaxBabies
    /\ \A i \in 1..Len(babies) : CriedInPass(i)

\* ---- C20 ----------------------------------------------------------------
\* C20 (as claimed): a put_baby that waits for the lock while the loop runs
\* eventually gets it and returns.
C20_PutBabyReturns ==
    (callerPc = "put_wait" /\ Phase = "Running") ~> (callerPc = "idle")

\* what does hold of put_baby: the two threads never block each other for
\* good (whoever holds the lock gives it back), and a put_baby that has the
\* lock returns
PutBabyNeverDeadlocks ==
    /\ (lock = "timer") ~> (lock # "timer")
    /\ (callerPc = "put_locked") ~> (callerPc = "idle")
    /\ [](callerPc = "put_wait" => lock # "caller")

====
